---- MODULE Spec2Model ----
(***************************************************************************)
(* Model of organogram.py: the field normaliser proc_field, the builder    *)
(* state of OrganisationDiagrammer (the three valid-value lists),          *)
(* create_graph_from_yaml over a networkx DiGraph, the drawing and export  *)
(* steps (the figure as the sequence of its draw calls) and main.          *)
(*                                                                         *)
(* Python values are tagged records so that None, strings, integers and    *)
(* booleans can live in one set.  A string is a sequence of one-character  *)
(* strings, so that split(" ", 1), "\n".join and upper() are computed      *)
(* character by character.                                                 *)
(***************************************************************************)
EXTENDS Integers, Sequences, FiniteSets, TLC

\* ------------------------------------------------------------------ bounds
MaxRecords == 3      \* node records + edge records of an input document
MaxLen == 3          \* length of the strings proc_field is explored on
MaxApply == 2        \* successive applications of proc_field to its own output

\* ------------------------------------------------------------ Python values
None == [t |-> "none", s |-> <<>>, n |-> 0]
PyStr(s) == [t |-> "str", s |-> s, n |-> 0]
PyInt(n) == [t |-> "int", s |-> <<>>, n |-> n]
PyBool(b) == [t |-> "bool", s |-> <<>>, n |-> IF b THEN 1 ELSE 0]
\* the exception a str method raises on a value that is not a str
AttributeError == [t |-> "AttributeError", s |-> <<>>, n |-> 0]

EmptyStr == PyStr(<<>>)
IsStr(v) == v.t = "str"

\* bool(v): None, "", 0 and False are falsy
Truthy(v) ==
    CASE v.t = "none" -> FALSE
      [] v.t = "str" -> v.s # <<>>
      [] v.t = "int" -> v.n # 0
      [] v.t = "bool" -> v.n # 0
      [] OTHER -> TRUE

\* a == b: bool is a subclass of int, so True == 1 and False == 0
PyEq(a, b) ==
    IF a.t \in {"int", "bool"} /\ b.t \in {"int", "bool"}
    THEN a.n = b.n
    ELSE a = b

\* v in lst, for a Python list lst
PyIn(v, lst) == \E i \in 1..Len(lst) : PyEq(lst[i], v)

\* -------------------------------------------------------------- str methods
LowerCase == <<"a", "b", "c", "d", "e", "f", "g", "h", "i", "j", "k", "l", "m",
               "n", "o", "p", "q", "r", "s", "t", "u", "v", "w", "x", "y", "z">>
UpperCase == <<"A", "B", "C", "D", "E", "F", "G", "H", "I", "J", "K", "L", "M",
               "N", "O", "P", "Q", "R", "S", "T", "U", "V", "W", "X", "Y", "Z">>

UpperChar(c) ==
    IF \E i \in 1..Len(LowerCase) : LowerCase[i] = c
    THEN UpperCase[CHOOSE i \in 1..Len(LowerCase) : LowerCase[i] = c]
    ELSE c

\* mutant of StrUpper: s.swapcase()
SwapChar(c) ==
    IF \E i \in 1..Len(UpperCase) : UpperCase[i] = c
    THEN LowerCase[CHOOSE i \in 1..Len(UpperCase) : UpperCase[i] = c]
    ELSE UpperChar(c)
StrUpper_swapcase(s) == [i \in 1..Len(s) |-> SwapChar(s[i])]

\* s.upper()
StrUpper(s) == [i \in 1..Len(s) |-> UpperChar(s[i])]

\* mutant of SplitOnce: s.split(" "), a split at every space
RECURSIVE SplitOnce_every(_)
SplitOnce_every(s) ==
    IF \E i \in 1..Len(s) : s[i] = " "
    THEN LET i == CHOOSE k \in 1..Len(s) :
                      s[k] = " " /\ \A j \in 1..(k - 1) : s[j] # " "
         IN  <<SubSeq(s, 1, i - 1)>> \o SplitOnce_every(SubSeq(s, i + 1, Len(s)))
    ELSE <<s>>

\* s.split(" ", 1): at most one split, at the first space
SplitOnce(s) ==
    IF \E i \in 1..Len(s) : s[i] = " "
    THEN LET i == CHOOSE k \in 1..Len(s) :
                      s[k] = " " /\ \A j \in 1..(k - 1) : s[j] # " "
         IN  <<SubSeq(s, 1, i - 1), SubSeq(s, i + 1, Len(s))>>
    ELSE <<s>>

\* "\n".join(parts)
RECURSIVE JoinNewline(_)
JoinNewline(parts) ==
    IF Len(parts) = 0 THEN <<>>
    ELSE IF Len(parts) = 1 THEN parts[1]
    ELSE parts[1] \o <<"\n">> \o JoinNewline(Tail(parts))

\* split_line(val)
split_line(val) ==
    IF Truthy(val)
    THEN IF IsStr(val) THEN PyStr(JoinNewline(SplitOnce(val.s))) ELSE AttributeError
    ELSE val

\* proc_field(val, newline, upper)
proc_field(val, newline, upper) ==
    IF Truthy(val)
    THEN LET v1 == IF newline
                   THEN IF IsStr(val) THEN PyStr(JoinNewline(SplitOnce(val.s)))
                        ELSE AttributeError
                   ELSE val
             v2 == IF upper /\ v1 # AttributeError
                   THEN IF IsStr(v1) THEN PyStr(StrUpper(v1.s)) ELSE AttributeError
                   ELSE v1
         IN  v2
    ELSE EmptyStr

\* ------------------------------------------------------- networkx.DiGraph
\* A graph is its node dictionary (name -> attribute dictionary) and its
\* adjacency (<<u, v>> -> attribute dictionary); a dictionary is a function.
EmptyDict == [k \in {} |-> None]
DiGraph == [node |-> EmptyDict, edge |-> EmptyDict]

\* d.update(attrs)
DictUpdate(d, attrs) == attrs @@ d

\* d.get(key)
Get(d, key) == IF key \in DOMAIN d THEN d[key] ELSE None

\* mutant of add_node: an existing node keeps the attributes it has
add_node_keep(g, name, attrs) ==
    IF name \in DOMAIN g.node
    THEN [g EXCEPT !.node = [m \in DOMAIN g.node |->
                                 IF m = name THEN DictUpdate(attrs, g.node[m])
                                 ELSE g.node[m]]]
    ELSE [g EXCEPT !.node = (name :> attrs) @@ g.node]

\* g.add_node(name, **attrs): a new key, or an update of the existing one
add_node(g, name, attrs) ==
    IF name \in DOMAIN g.node
    THEN [g EXCEPT !.node = [m \in DOMAIN g.node |->
                                 IF m = name THEN DictUpdate(g.node[m], attrs)
                                 ELSE g.node[m]]]
    ELSE [g EXCEPT !.node = (name :> attrs) @@ g.node]

\* mutant of add_edge: the endpoints are not made nodes
add_edge_bare(g, u, v, attrs) ==
    LET e == <<u, v>>
    IN  [g EXCEPT !.edge = IF e \in DOMAIN g.edge
                           THEN [x \in DOMAIN g.edge |->
                                    IF x = e THEN DictUpdate(g.edge[x], attrs)
                                    ELSE g.edge[x]]
                           ELSE (e :> attrs) @@ g.edge]

\* mutant of add_edge: an existing adjacency entry keeps the attributes it has
add_edge_keep(g, u, v, attrs) ==
    LET nu == IF u \in DOMAIN g.node THEN g.node ELSE (u :> EmptyDict) @@ g.node
        nv == IF v \in DOMAIN nu THEN nu ELSE (v :> EmptyDict) @@ nu
        e  == <<u, v>>
        ed == IF e \in DOMAIN g.edge THEN g.edge ELSE (e :> attrs) @@ g.edge
    IN  [node |-> nv, edge |-> ed]

\* g.add_edge(u, v, **attrs): both endpoints become nodes if they are not,
\* and the one adjacency entry of the pair is created or updated
add_edge(g, u, v, attrs) ==
    LET nu == IF u \in DOMAIN g.node THEN g.node ELSE (u :> EmptyDict) @@ g.node
        nv == IF v \in DOMAIN nu THEN nu ELSE (v :> EmptyDict) @@ nu
        e  == <<u, v>>
        ed == IF e \in DOMAIN g.edge
              THEN [x \in DOMAIN g.edge |->
                        IF x = e THEN DictUpdate(g.edge[x], attrs) ELSE g.edge[x]]
              ELSE (e :> attrs) @@ g.edge
    IN  [node |-> nv, edge |-> ed]

\* ------------------------------------------------ OrganisationDiagrammer
S_perm == PyStr(<<"p", "e", "r", "m">>)
S_contractor == PyStr(<<"c", "o", "n", "t", "r", "a", "c", "t", "o", "r">>)
S_starting == PyStr(<<"s", "t", "a", "r", "t", "i", "n", "g">>)
S_leaving == PyStr(<<"l", "e", "a", "v", "i", "n", "g">>)
S_moving == PyStr(<<"m", "o", "v", "i", "n", "g">>)
S_new == PyStr(<<"n", "e", "w">>)
S_hiring == PyStr(<<"h", "i", "r", "i", "n", "g">>)

VALID_STATUS == <<S_perm, S_contractor, S_starting, S_leaving, S_moving, S_new>>
VALID_TEAM == <<PyStr(<<"A">>), PyStr(<<"B">>), PyStr(<<"C">>),
                PyStr(<<"D">>), PyStr(<<"E">>), PyStr(<<"F">>)>>
VALID_RELATION == <<PyInt(1), PyInt(2), PyInt(3), PyInt(4)>>

\* what a call of create_graph_from_yaml ends in: the graph it returns, or the
\* exception it raises (no graph) and the loop position of the raise
Raised(exc, where, i) == [status |-> exc, g |-> None, at |-> <<where, i>>]
Returned(g) == [status |-> "returned", g |-> g, at |-> <<"return", 0>>]

\* mutant of TeamValid: the team is compared after upper-casing
TeamValid_upper(self, team) == PyIn(PyStr(StrUpper(team.s)), self.validTeams)

\* `assert team in self._validTeams`
TeamValid(self, team) == PyIn(team, self.validTeams)

\* mutant of StatusValid: the status is not checked
StatusValid_skip(self, status) == TRUE

\* `assert status in self._validStatus`
StatusValid(self, status) == PyIn(status, self.validStatus)

\* `assert relation in self._validRelations`
RelationValid(self, relation) == PyIn(relation, self.validRelations)

\* mutant of NormRelation: the relationship as written in the record
NormRelation_raw(edge) == Get(edge, "relationship")

\* `relation = proc_field(edge.get("relationship"))`
NormRelation(edge) == proc_field(Get(edge, "relationship"), FALSE, FALSE)

\* mutant of NormTeam: the team is split but not upper-cased
NormTeam_noupper(team, newline) == proc_field(team, newline, FALSE)

\* `team = proc_field(team, newline, upper=True)`
NormTeam(team, newline) == proc_field(team, newline, TRUE)

\* mutant of KeepNode: `if name is not None:`
KeepNode_notnone(name) == name # None

\* `if name:` and `if source:`, the records that reach the graph
KeepNode(name) == Truthy(name)
KeepEdge(source) == Truthy(source)

\* mutant of NodeBody: a record without an id is skipped before it is validated
NodeBody_skipfirst(self, g, node, newline, validate) ==
    LET name == proc_field(Get(node, "id"), newline, FALSE)
        note == proc_field(Get(node, "note"), FALSE, FALSE)
        team0 == proc_field(Get(node, "team"), FALSE, FALSE)
        job == proc_field(Get(node, "label"), newline, FALSE)
        rank == proc_field(Get(node, "rank"), FALSE, FALSE)
        manager == proc_field(Get(node, "manager"), FALSE, FALSE)
        team == IF Truthy(team0) THEN NormTeam(team0, newline) ELSE team0
        status == Get(node, "status")
    IN  IF name = AttributeError \/ job = AttributeError
        THEN [exc |-> "AttributeError", g |-> g]
        ELSE IF ~KeepNode(name)
        THEN [exc |-> "", g |-> g]
        ELSE IF Truthy(team0) /\ validate /\ ~TeamValid(self, team0)
        THEN [exc |-> "AssertionError", g |-> g]
        ELSE IF team = AttributeError
        THEN [exc |-> "AttributeError", g |-> g]
        ELSE IF validate /\ Truthy(status) /\ ~StatusValid(self, status)
        THEN [exc |-> "AssertionError", g |-> g]
        ELSE [exc |-> "",
              g |-> add_node(g, name,
                             [rank |-> rank, jobtitle |-> job, status |-> status,
                              manager |-> manager, note |-> note, team |-> team])]

\* the body of `for node in yaml_data["nodes"]`: the graph after it, or the
\* exception it raises
NodeBody(self, g, node, newline, validate) ==
    LET name == proc_field(Get(node, "id"), newline, FALSE)
        note == proc_field(Get(node, "note"), FALSE, FALSE)
        team0 == proc_field(Get(node, "team"), FALSE, FALSE)
        job == proc_field(Get(node, "label"), newline, FALSE)
        rank == proc_field(Get(node, "rank"), FALSE, FALSE)
        manager == proc_field(Get(node, "manager"), FALSE, FALSE)
        team == IF Truthy(team0) THEN NormTeam(team0, newline) ELSE team0
        status == Get(node, "status")
    IN  IF name = AttributeError \/ job = AttributeError
        THEN [exc |-> "AttributeError", g |-> g]
        ELSE IF Truthy(team0) /\ validate /\ ~TeamValid(self, team0)
        THEN [exc |-> "AssertionError", g |-> g]
        ELSE IF team = AttributeError
        THEN [exc |-> "AttributeError", g |-> g]
        ELSE IF validate /\ Truthy(status) /\ ~StatusValid(self, status)
        THEN [exc |-> "AssertionError", g |-> g]
        ELSE IF KeepNode(name)
        THEN [exc |-> "",
              g |-> add_node(g, name,
                             [rank |-> rank, jobtitle |-> job, status |-> status,
                              manager |-> manager, note |-> note, team |-> team])]
        ELSE [exc |-> "", g |-> g]

\* the body of `for edge in yaml_data["edges"]`
EdgeBody(self, g, edge, newline, validate) ==
    LET source == proc_field(Get(edge, "source"), newline, FALSE)
        target == proc_field(Get(edge, "target"), newline, FALSE)
        label == proc_field(Get(edge, "label"), FALSE, FALSE)
        relation == NormRelation(edge)
    IN  IF source = AttributeError \/ target = AttributeError
        THEN [exc |-> "AttributeError", g |-> g]
        ELSE IF validate /\ ~RelationValid(self, relation)
        THEN [exc |-> "AssertionError", g |-> g]
        ELSE IF KeepEdge(source)
        THEN [exc |-> "",
              g |-> add_edge(g, source, target,
                             [label |-> label, relationship |-> relation])]
        ELSE [exc |-> "", g |-> g]

RECURSIVE EdgeLoop(_, _, _, _, _, _)
EdgeLoop(self, g, edges, i, newline, validate) ==
    IF i > Len(edges) THEN Returned(g)
    ELSE LET r == EdgeBody(self, g, edges[i], newline, validate)
         IN  IF r.exc # "" THEN Raised(r.exc, "edges", i)
             ELSE EdgeLoop(self, r.g, edges, i + 1, newline, validate)

RECURSIVE NodeLoop(_, _, _, _, _, _)
NodeLoop(self, g, data, i, newline, validate) ==
    IF i > Len(data["nodes"])
    THEN IF "edges" \in DOMAIN data
         THEN EdgeLoop(self, g, data["edges"], 1, newline, validate)
         ELSE Raised("KeyError", "edges", 0)
    ELSE LET r == NodeBody(self, g, data["nodes"][i], newline, validate)
         IN  IF r.exc # "" THEN Raised(r.exc, "nodes", i)
             ELSE NodeLoop(self, r.g, data, i + 1, newline, validate)

\* create_graph_from_yaml(self, yaml_data, newline, validate)
create_graph_from_yaml(self, data, newline, validate) ==
    IF "nodes" \in DOMAIN data
    THEN NodeLoop(self, DiGraph, data, 1, newline, validate)
    ELSE Raised("KeyError", "nodes", 0)

\* ------------------------------------------------------- input documents
S_a_b == PyStr(<<"a", " ", "b">>)
S_c == PyStr(<<"c">>)
S_x_y == PyStr(<<"x", " ", "y">>)
S_yes == PyStr(<<"y", "e", "s">>)

\* the attributes of a node record, apart from its id: one record with every
\* field set, one with falsy and missing fields
NodeFull ==
    [team |-> PyStr(<<"A">>), status |-> S_perm, label |-> PyStr(<<"j", " ", "k">>),
     rank |-> PyInt(1), manager |-> S_yes, note |-> PyStr(<<"n">>)]
NodeSparse ==
    [team |-> S_x_y, status |-> S_hiring, rank |-> PyInt(0),
     manager |-> PyBool(FALSE), note |-> EmptyStr]

NodeRecs ==
    { ("id" :> S_a_b) @@ NodeFull, ("id" :> S_a_b) @@ NodeSparse,
      ("id" :> S_c) @@ NodeFull,
      EmptyDict, [id |-> EmptyStr, team |-> S_x_y, status |-> S_hiring] }

EdgeRecs ==
    { [source |-> S_a_b, target |-> S_c, relationship |-> PyInt(1),
       label |-> PyStr(<<"l">>)],
      [source |-> S_a_b, target |-> S_c, relationship |-> PyInt(5)],
      [source |-> S_a_b],
      EmptyDict }

SeqsUpTo(S, n) == UNION { [1..k -> S] : k \in 0..n }

\* documents with both keys, and documents with a key missing
DocsOf(n) ==
    UNION { { [nodes |-> ns, edges |-> es] :
                  ns \in [1..k -> NodeRecs], es \in SeqsUpTo(EdgeRecs, n - k) } :
            k \in 0..n }
FullDocs == DocsOf(MaxRecords)
Docs == FullDocs \cup { EmptyDict }
             \cup { [nodes |-> d.nodes] : d \in { x \in FullDocs : x.edges = <<>> } }
             \cup { [edges |-> d.edges] : d \in { x \in FullDocs : x.nodes = <<>> } }

\* the lists the setters are called with
TeamsCustom == <<PyStr(<<"A">>), S_x_y>>
StatusCustom == <<S_hiring>>
RelationsCustom == <<EmptyStr, PyInt(5)>>

\* g.number_of_edges(u, v): a DiGraph holds at most one edge per ordered pair
number_of_edges(g, u, v) == IF <<u, v>> \in DOMAIN g.edge THEN 1 ELSE 0

\* ------------------------------------------------------------ the state
VARIABLES
    validTeams,      \* self._validTeams
    validStatus,     \* self._validStatus
    validRelations,  \* self._validRelations
    yaml_data,       \* the input document
    call,            \* the arguments of the last create_graph_from_yaml call
    result,          \* what that call ended in
    setlog,          \* history: the argument of the last call of each setter
    fresh,           \* history: no setter was called since the last build
    fval,            \* proc_field: the value it is applied to
    fflags,          \* proc_field: the newline and upper arguments
    fout,            \* proc_field: the outputs of successive applications
    canvas,          \* matplotlib: the draw calls made on the current figure
    layout,          \* what create_graphviz_layout_from_graph returned
    disk,            \* the files that exist, by path
    arguments,       \* main: the parsed command line
    pc,              \* main: the position reached
    exitStatus,      \* main: the exit status of the process, once it has ended
    stdout           \* main: the messages printed

vars == <<validTeams, validStatus, validRelations, yaml_data, call, result,
          setlog, fresh, fval, fflags, fout,
          canvas, layout, disk, arguments, pc, exitStatus, stdout>>
renderVars == <<canvas, layout, disk>>
mainVars == <<arguments, pc, exitStatus, stdout>>
builderVars == <<validTeams, validStatus, validRelations, yaml_data, call,
                 result, setlog, fresh>>
fieldVars == <<fval, fflags, fout>>

Self == [validTeams |-> validTeams, validStatus |-> validStatus,
         validRelations |-> validRelations]

NoCall == [made |-> FALSE, newline |-> FALSE, validate |-> FALSE]
NoResult == [status |-> "none", g |-> None, at |-> <<"none", 0>>]
Unset == [set |-> FALSE, val |-> <<>>]
SetTo(l) == [set |-> TRUE, val |-> l]

\* OrganisationDiagrammer.__init__
InitBuilder ==
    /\ validTeams = VALID_TEAM
    /\ validStatus = VALID_STATUS
    /\ validRelations = VALID_RELATION
    /\ call = NoCall
    /\ result = NoResult
    /\ setlog = [teams |-> Unset, status |-> Unset, relations |-> Unset]
    /\ fresh = FALSE

InitField ==
    /\ fval = None
    /\ fflags = [newline |-> FALSE, upper |-> FALSE]
    /\ fout = <<>>

NoLayout == [made |-> FALSE, g |-> None, exc |-> ""]
NoArguments == [source |-> <<>>, version |-> FALSE, help |-> FALSE]

\* nothing drawn, no file written
InitRender ==
    /\ canvas = <<>>
    /\ layout = NoLayout
    /\ disk = EmptyDict

\* main is not running
InitNoMain ==
    /\ arguments = NoArguments
    /\ pc = "idle"
    /\ exitStatus = None
    /\ stdout = <<>>

Init ==
    /\ InitBuilder
    /\ yaml_data \in Docs
    /\ InitField
    /\ InitRender
    /\ InitNoMain

\* set_valid_teams(teams), teams a list
set_valid_teams(teams) ==
    /\ validTeams' = teams
    /\ setlog' = [setlog EXCEPT !.teams = SetTo(teams)]
    /\ fresh' = FALSE
    /\ UNCHANGED <<validStatus, validRelations, yaml_data, call, result>>
    /\ UNCHANGED <<fieldVars, renderVars, mainVars>>

\* mutant of set_valid_status: the list is stored as the team list
set_valid_status_teams(status) ==
    /\ validTeams' = status
    /\ setlog' = [setlog EXCEPT !.status = SetTo(status)]
    /\ fresh' = FALSE
    /\ UNCHANGED <<validStatus, validRelations, yaml_data, call, result>>
    /\ UNCHANGED <<fieldVars, renderVars, mainVars>>

\* set_valid_status(status), status a list
set_valid_status(status) ==
    /\ validStatus' = status
    /\ setlog' = [setlog EXCEPT !.status = SetTo(status)]
    /\ fresh' = FALSE
    /\ UNCHANGED <<validTeams, validRelations, yaml_data, call, result>>
    /\ UNCHANGED <<fieldVars, renderVars, mainVars>>

\* set_valid_relations(relations), relations a list
set_valid_relations(relations) ==
    /\ validRelations' = relations
    /\ setlog' = [setlog EXCEPT !.relations = SetTo(relations)]
    /\ fresh' = FALSE
    /\ UNCHANGED <<validTeams, validStatus, yaml_data, call, result>>
    /\ UNCHANGED <<fieldVars, renderVars, mainVars>>

\* a call of create_graph_from_yaml on the document, start to end
CreateGraph(newline, validate) ==
    /\ call' = [made |-> TRUE, newline |-> newline, validate |-> validate]
    /\ result' = create_graph_from_yaml(Self, yaml_data, newline, validate)
    /\ fresh' = TRUE
    /\ UNCHANGED <<validTeams, validStatus, validRelations, yaml_data, setlog>>
    /\ UNCHANGED <<fieldVars, renderVars, mainVars>>

Next ==
    \/ set_valid_teams(TeamsCustom)
    \/ set_valid_status(StatusCustom)
    \/ set_valid_relations(RelationsCustom)
    \/ \E newline \in BOOLEAN, validate \in BOOLEAN : CreateGraph(newline, validate)

Spec == Init /\ [][Next]_vars

\* ------------------------------------- the setters on a wider choice
\* the document and the lists of tests/test_organogram.py
S_TeamA == PyStr(<<"T", "e", "a", "m", " ", "A">>)
S_TeamB == PyStr(<<"T", "e", "a", "m", " ", "B">>)
TestDoc ==
    [nodes |-> << [id |-> PyStr(<<"A">>), label |-> PyStr(<<"C", "E", "O">>),
                   status |-> S_perm, manager |-> S_yes, team |-> S_TeamA],
                  [id |-> PyStr(<<"B">>), label |-> PyStr(<<"C", "T", "O">>),
                   status |-> S_perm, manager |-> PyStr(<<"n", "o">>),
                   team |-> S_TeamB] >>,
     edges |-> << [source |-> PyStr(<<"A">>), target |-> PyStr(<<"B">>),
                   relationship |-> PyInt(1)] >>]

TeamArgs == { TeamsCustom, VALID_TEAM, <<S_TeamA, S_TeamB>> }
StatusArgs == { StatusCustom, VALID_STATUS, <<S_perm>> }
RelationArgs == { RelationsCustom, VALID_RELATION }

\* the documents of one record, and the test document
ConfigDocs ==
    { d \in FullDocs : Len(d.nodes) + Len(d.edges) <= 1 } \cup { TestDoc }

InitConfig ==
    /\ InitBuilder
    /\ yaml_data \in ConfigDocs
    /\ InitField
    /\ InitRender
    /\ InitNoMain

NextConfig ==
    \/ \E teams \in TeamArgs : set_valid_teams(teams)
    \/ \E status \in StatusArgs : set_valid_status(status)
    \/ \E relations \in RelationArgs : set_valid_relations(relations)
    \/ \E newline \in BOOLEAN, validate \in BOOLEAN : CreateGraph(newline, validate)

SpecConfig == InitConfig /\ [][NextConfig]_vars

\* --------------------------------------------- what the claims speak of
HasNodes == "nodes" \in DOMAIN yaml_data
HasEdges == "edges" \in DOMAIN yaml_data
HasKeys == HasNodes /\ HasEdges
NodesOf == IF HasNodes THEN yaml_data["nodes"] ELSE <<>>
EdgesOf == IF HasEdges THEN yaml_data["edges"] ELSE <<>>
NodeIx == 1..Len(NodesOf)
EdgeIx == 1..Len(EdgesOf)

FirstSpace(s) ==
    IF \E i \in 1..Len(s) : s[i] = " "
    THEN CHOOSE i \in 1..Len(s) : s[i] = " " /\ \A j \in 1..(i - 1) : s[j] # " "
    ELSE 0
\* a non-empty string, position by position: the first space becomes a line
\* break (newline), every letter its capital (upper)
Expected(s, newline, upper) ==
    [i \in 1..Len(s) |->
        LET c == IF newline /\ i = FirstSpace(s) THEN "\n" ELSE s[i]
        IN  IF upper THEN UpperChar(c) ELSE c]
Spaces(s) == Cardinality({ i \in 1..Len(s) : s[i] = " " })

\* a field as the claims say it is stored: "" when missing or empty
Plain(v) == IF Truthy(v) THEN v ELSE EmptyStr
Shown(v, newline, upper) ==
    IF Truthy(v) THEN PyStr(Expected(v.s, newline, upper)) ELSE EmptyStr

NameOf(i) == Shown(Get(NodesOf[i], "id"), call.newline, FALSE)
SourceOf(j) == Shown(Get(EdgesOf[j], "source"), call.newline, FALSE)
TargetOf(j) == Shown(Get(EdgesOf[j], "target"), call.newline, FALSE)
KeptNodes == { i \in NodeIx : Truthy(NameOf(i)) }
KeptEdges == { j \in EdgeIx : Truthy(SourceOf(j)) }
ExpectedNames == { NameOf(i) : i \in KeptNodes }
                    \cup { SourceOf(j) : j \in KeptEdges }
                    \cup { TargetOf(j) : j \in KeptEdges }
ExpectedPairs == { <<SourceOf(j), TargetOf(j)>> : j \in KeptEdges }
LastWithName(i) == \A k \in KeptNodes : k > i => NameOf(k) # NameOf(i)

\* the records validation objects to, under the lists of the builder
BadTeam(i) ==
    LET team == Get(NodesOf[i], "team")
    IN  Truthy(team) /\ ~PyIn(team, validTeams)
BadStatus(i) ==
    LET status == Get(NodesOf[i], "status")
    IN  Truthy(status) /\ ~PyIn(status, validStatus)
BadRelation(j) == ~PyIn(Plain(Get(EdgesOf[j], "relationship")), validRelations)

Aborted == call.made /\ result.status = "AssertionError" /\ result.g = None

\* ---------------------------------------------------------- C1 .. C3
C1_Hyp ==
    /\ call.made /\ ~call.validate /\ HasKeys
    /\ \A i \in NodeIx : Truthy(Get(NodesOf[i], "id"))
    /\ \A j \in EdgeIx : Truthy(Get(EdgesOf[j], "source"))

\* C1 as claimed: with validation off, N node records with a non-empty id and
\* M edge records with a non-empty source give exactly N nodes and M edges.
C1_Original ==
    C1_Hyp => /\ result.status = "returned"
              /\ Cardinality(DOMAIN result.g.node) = Len(NodesOf)
              /\ Cardinality(DOMAIN result.g.edge) = Len(EdgesOf)

\* C1 as amended: with validation off, such a document gives as many nodes as
\* there are distinct normalized names among the ids, sources and targets and
\* as many edges as there are distinct (source, target) pairs; these are N and
\* M when the ids are pairwise distinct, the pairs are pairwise distinct and
\* every endpoint is a declared id.
C1_Counts ==
    C1_Hyp =>
        /\ result.status = "returned"
        /\ Cardinality(DOMAIN result.g.node) = Cardinality(ExpectedNames)
        /\ Cardinality(DOMAIN result.g.edge) = Cardinality(ExpectedPairs)
        /\ ( /\ \A i, k \in NodeIx : i # k => NameOf(i) # NameOf(k)
             /\ \A j, k \in EdgeIx :
                    j # k => <<SourceOf(j), TargetOf(j)>> # <<SourceOf(k), TargetOf(k)>>
             /\ \A j \in EdgeIx : {SourceOf(j), TargetOf(j)} \subseteq
                                        { NameOf(i) : i \in NodeIx } )
            => /\ Cardinality(DOMAIN result.g.node) = Len(NodesOf)
               /\ Cardinality(DOMAIN result.g.edge) = Len(EdgesOf)

C1_Witness ==
    /\ C1_Hyp /\ result.status = "returned"
    /\ Len(NodesOf) = 1 /\ Len(EdgesOf) = 2
    /\ Cardinality(DOMAIN result.g.node) = 2
    /\ Cardinality(DOMAIN result.g.edge) = 1

\* C2: with validation off (and both keys in the document) the call never
\* fails; a node record with a missing or empty id adds no node and an edge
\* record with a missing or empty source adds no edge and no node, so every
\* node and edge of the graph comes from a record that has one; nodes
\* [{}, {}] with edges [{}] give 0 nodes and 0 edges.
DocNone == [nodes |-> <<EmptyDict, EmptyDict>>, edges |-> <<EmptyDict>>]
C2_Dropped ==
    (call.made /\ ~call.validate /\ HasKeys) =>
        /\ result.status = "returned"
        /\ DOMAIN result.g.node \subseteq ExpectedNames
        /\ DOMAIN result.g.edge \subseteq ExpectedPairs
        /\ yaml_data = DocNone => result.g = DiGraph

C2_Witness ==
    /\ yaml_data = DocNone /\ call.made /\ ~call.validate
    /\ result.status = "returned"
    /\ Cardinality(DOMAIN result.g.node) = 0
    /\ Cardinality(DOMAIN result.g.edge) = 0

\* C3: when a node record has a non-empty team that is not in the builder's
\* valid-team list, the call with validate=True ends in an assertion error and
\* returns no graph, while the call with validate=False returns a graph in
\* which the node that record writes carries the team with its first space
\* replaced by a line break (newline on) and then upper-cased.
C3_InvalidTeam ==
    (call.made /\ fresh /\ \E i \in NodeIx : BadTeam(i)) =>
        /\ call.validate => Aborted
        /\ (~call.validate /\ HasEdges) =>
               /\ result.status = "returned"
               /\ \A i \in KeptNodes :
                      (BadTeam(i) /\ LastWithName(i)) =>
                          Get(result.g.node[NameOf(i)], "team")
                              = PyStr(Expected(Get(NodesOf[i], "team").s,
                                               call.newline, TRUE))

C3_Witness ==
    /\ call.made /\ fresh /\ ~call.validate /\ call.newline
    /\ validTeams = VALID_TEAM
    /\ result.status = "returned"
    /\ \E i \in KeptNodes :
           /\ BadTeam(i)
           /\ Get(NodesOf[i], "team") = S_x_y
           /\ Get(result.g.node[NameOf(i)], "team") = PyStr(<<"X", "\n", "Y">>)

\* ---------------------------------------------------------- C4 .. C6
AllValid ==
    /\ \A i \in NodeIx : /\ PyIn(Get(NodesOf[i], "team"), validTeams)
                          /\ PyIn(Get(NodesOf[i], "status"), validStatus)
    /\ \A j \in EdgeIx : ~BadRelation(j)

\* C4: when every node record's team (as written) and status are in the
\* valid lists and every edge record's (normalized) relationship is in the
\* valid-relationship list, the call with validate=True returns, and returns
\* the graph the call with validate=False returns.
C4_ValidateEquiv ==
    (call.made /\ fresh /\ call.validate /\ HasKeys /\ AllValid) =>
        /\ result.status = "returned"
        /\ result.g = create_graph_from_yaml(Self, yaml_data, call.newline, FALSE).g

C4_Witness ==
    /\ call.made /\ fresh /\ call.validate /\ HasKeys /\ AllValid
    /\ Len(NodesOf) >= 2 /\ Len(EdgesOf) >= 1
    /\ result.status = "returned"
    /\ Cardinality(DOMAIN result.g.node) >= 2
    /\ Cardinality(DOMAIN result.g.edge) >= 1

NodesPass == \A i \in NodeIx : ~BadTeam(i) /\ ~BadStatus(i)

\* C5: with validate=True, once the node records have passed, the call fails
\* if some edge record's normalized relationship is not in the
\* valid-relationship list and returns if every one is; a record with no
\* relationship normalizes to "" and is rejected unless "" is in the list.
C5_Relationship ==
    (call.made /\ fresh /\ call.validate /\ HasKeys /\ NodesPass) =>
        IF \E j \in EdgeIx : BadRelation(j)
        THEN Aborted /\ result.at[1] = "edges"
        ELSE result.status = "returned"

C5_Witness ==
    /\ call.made /\ fresh /\ call.validate /\ HasKeys /\ NodesPass
    /\ validRelations = VALID_RELATION
    /\ Len(EdgesOf) >= 2
    /\ "relationship" \in DOMAIN EdgesOf[1]
    /\ "relationship" \notin DOMAIN EdgesOf[2]
    /\ Aborted /\ result.at = <<"edges", 2>>

OffendingNodes == { i \in NodeIx : BadTeam(i) \/ BadStatus(i) }
OffendingEdges == { j \in EdgeIx : BadRelation(j) }
Least(S) == CHOOSE x \in S : \A y \in S : x <= y

\* C6: with validate=True, if any record at any position violates validation
\* (non-empty team not in the valid-team list, non-empty status not in the
\* valid-status list, relationship not in the valid-relationship list) the
\* call ends in an assertion error raised at the first offending record,
\* node records before edge records, and returns no graph.
C6_AllOrNothing ==
    (call.made /\ fresh /\ call.validate /\ HasNodes
               /\ (OffendingNodes # {} \/ OffendingEdges # {})) =>
        /\ Aborted
        /\ result.at = IF OffendingNodes # {}
                       THEN <<"nodes", Least(OffendingNodes)>>
                       ELSE <<"edges", Least(OffendingEdges)>>

C6_Witness ==
    /\ call.made /\ fresh /\ call.validate
    /\ Aborted
    /\ result.at = <<"nodes", 2>>
    /\ 1 \in KeptNodes
    /\ ~BadTeam(2) /\ BadStatus(2)

\* ---------------------------------------------------------------- C10
NodeAttrsOf(i) ==
    LET node == NodesOf[i]
    IN  [rank |-> Plain(Get(node, "rank")),
         jobtitle |-> Shown(Get(node, "label"), call.newline, FALSE),
         status |-> Get(node, "status"),
         manager |-> Plain(Get(node, "manager")),
         note |-> Plain(Get(node, "note")),
         team |-> Shown(Get(node, "team"), call.newline, TRUE)]

\* C10: when several node records normalize to the same name, the returned
\* graph has that name as one node, and each of its attributes rank,
\* jobtitle, status, manager, note and team is the value of the last such
\* record, none being kept from an earlier record.
C10_LastWriteWins ==
    (call.made /\ result.status = "returned") =>
        \A i \in KeptNodes :
            LastWithName(i) =>
                /\ NameOf(i) \in DOMAIN result.g.node
                /\ \A k \in {"rank", "jobtitle", "status", "manager", "note", "team"} :
                       Get(result.g.node[NameOf(i)], k) = NodeAttrsOf(i)[k]

C10_Witness ==
    /\ call.made /\ result.status = "returned"
    /\ Len(NodesOf) >= 2
    /\ {1, 2} \subseteq KeptNodes
    /\ NameOf(1) = NameOf(2)
    /\ \A k \in {"rank", "jobtitle", "status", "manager", "note", "team"} :
           /\ NodeAttrsOf(1)[k] # NodeAttrsOf(2)[k]
           /\ Get(result.g.node[NameOf(2)], k) = NodeAttrsOf(2)[k]
    /\ Cardinality(DOMAIN result.g.node) = 1

\* ----------------------------------------------------------------- C7
\* the list a getter is to return: the one most recently set, or the default
Recent(log, default) == IF log.set THEN log.val ELSE default
RecentTeams ==
    Recent(setlog.teams, <<PyStr(<<"A">>), PyStr(<<"B">>), PyStr(<<"C">>),
                           PyStr(<<"D">>), PyStr(<<"E">>), PyStr(<<"F">>)>>)
RecentStatus ==
    Recent(setlog.status,
           <<S_perm, S_contractor, S_starting, S_leaving, S_moving, S_new>>)
RecentRelations ==
    Recent(setlog.relations, <<PyInt(1), PyInt(2), PyInt(3), PyInt(4)>>)

\* some record the validating call reaches is not in the most recent lists
RejectedByRecent ==
    \/ \E i \in NodeIx :
           LET team == Get(NodesOf[i], "team")
               status == Get(NodesOf[i], "status")
           IN  \/ Truthy(team) /\ ~PyIn(team, RecentTeams)
               \/ Truthy(status) /\ ~PyIn(status, RecentStatus)
    \/ \E j \in EdgeIx :
           ~PyIn(Plain(Get(EdgesOf[j], "relationship")), RecentRelations)

C7_Lists ==
    /\ validTeams = RecentTeams
    /\ validStatus = RecentStatus
    /\ validRelations = RecentRelations
    /\ (call.made /\ fresh /\ call.validate /\ HasKeys) =>
           (result.status = "AssertionError" <=> RejectedByRecent)

\* a step in which a setter is called
SetterStep == setlog' # setlog \/ (fresh /\ ~fresh')

\* C7: a new builder has the built-in default lists; after any sequence of
\* set calls each getter returns the list most recently set for it (so a set
\* call leaves the other two lists alone), a validating build fails exactly
\* when a record is not in those most recent lists, and a set call changes
\* neither the document nor the outcome and graph of the build already made.
C7_Config ==
    /\ []C7_Lists
    /\ [][SetterStep => (result' = result /\ call' = call
                            /\ yaml_data' = yaml_data)]_vars

C7_Witness ==
    /\ yaml_data = TestDoc
    /\ setlog.teams = SetTo(<<S_TeamA, S_TeamB>>)
    /\ setlog.status = SetTo(<<S_perm>>)
    /\ ~setlog.relations.set
    /\ validTeams = <<S_TeamA, S_TeamB>>
    /\ validStatus = <<S_perm>>
    /\ call.made /\ fresh /\ call.validate
    /\ result.status = "returned"
    /\ Cardinality(DOMAIN result.g.node) = 2
    /\ Cardinality(DOMAIN result.g.edge) = 1

\* ------------------------------------------------ proc_field on its own
FieldChars == {"a", "B", " ", "\n"}
S_HeadOfEngineering ==
    PyStr(<<"H", "e", "a", "d", " ", "o", "f", " ",
            "E", "n", "g", "i", "n", "e", "e", "r", "i", "n", "g">>)
S_ops == PyStr(<<"o", "p", "s">>)

FieldValues ==
    { PyStr(s) : s \in SeqsUpTo(FieldChars, MaxLen) }
    \cup { None, PyInt(0), PyInt(1), PyBool(FALSE), S_HeadOfEngineering, S_ops }

InitProcField ==
    /\ InitBuilder
    /\ yaml_data = EmptyDict
    /\ fval \in FieldValues
    /\ fflags \in [newline : BOOLEAN, upper : BOOLEAN]
    /\ fout = <<>>
    /\ InitRender
    /\ InitNoMain

\* proc_field applied to the value, then to its own last output; an
\* AttributeError ends the sequence
ApplyProcField ==
    /\ Len(fout) < MaxApply
    /\ LET val == IF fout = <<>> THEN fval ELSE fout[Len(fout)]
       IN  /\ val # AttributeError
           /\ fout' = Append(fout, proc_field(val, fflags.newline, fflags.upper))
    /\ UNCHANGED <<fval, fflags>>
    /\ UNCHANGED <<builderVars, renderVars, mainVars>>

NextProcField == ApplyProcField

SpecProcField == InitProcField /\ [][NextProcField]_vars

\* ---------------------------------------------------------- C8, C9
\* C8: proc_field returns "" for every falsy or missing value under every
\* combination of the flags; for a non-empty string it returns the value with
\* its first space replaced by a line break when newline is true, then
\* upper-cased when upper is true; "Head of Engineering" with newline gives
\* "Head\nof Engineering" and "ops" with upper gives "OPS".
C8_ProcField ==
    Len(fout) >= 1 =>
        /\ ~Truthy(fval) => fout[1] = EmptyStr
        /\ (IsStr(fval) /\ Truthy(fval)) =>
               fout[1] = PyStr(Expected(fval.s, fflags.newline, fflags.upper))
        /\ (fval = S_HeadOfEngineering /\ fflags.newline /\ ~fflags.upper) =>
               fout[1] = PyStr(<<"H", "e", "a", "d", "\n", "o", "f", " ",
                                 "E", "n", "g", "i", "n", "e", "e", "r", "i", "n", "g">>)
        /\ (fval = S_ops /\ fflags.upper /\ ~fflags.newline) =>
               fout[1] = PyStr(<<"O", "P", "S">>)

C8_Witness ==
    /\ fval = S_HeadOfEngineering
    /\ fflags = [newline |-> TRUE, upper |-> TRUE]
    /\ Len(fout) >= 1
    /\ fout[1] = PyStr(<<"H", "E", "A", "D", "\n", "O", "F", " ",
                          "E", "N", "G", "I", "N", "E", "E", "R", "I", "N", "G">>)

\* C9: with upper=True (and newline off) applying proc_field twice to a
\* string gives what applying it once gives; with newline=True (and upper
\* off) twice differs from once exactly for the strings with at least two
\* spaces.
C9_Idempotence ==
    (Len(fout) >= 2 /\ IsStr(fval)) =>
        /\ (fflags.upper /\ ~fflags.newline) => fout[2] = fout[1]
        /\ (fflags.newline /\ ~fflags.upper) =>
               (fout[2] # fout[1] <=> Spaces(fval.s) >= 2)

C9_Witness ==
    /\ fval = PyStr(<<"a", " ", " ">>)
    /\ fflags = [newline |-> TRUE, upper |-> FALSE]
    /\ Len(fout) >= 2
    /\ fout[1] = PyStr(<<"a", "\n", " ">>)
    /\ fout[2] = PyStr(<<"a", "\n", "\n">>)

\* ---------------------------------------------------------------- C11
PairOf(j) == <<SourceOf(j), TargetOf(j)>>
SamePair(j) == { k \in KeptEdges : PairOf(k) = PairOf(j) }
EdgeAttrsOf(j) ==
    [label |-> Plain(Get(EdgesOf[j], "label")),
     relationship |-> Plain(Get(EdgesOf[j], "relationship"))]
LastWithPair(j) == \A k \in SamePair(j) : k <= j

\* C11 as claimed: when k edge records have the same non-empty source and the
\* same target after normalization, the returned graph has k edges between
\* that pair, and the label and relationship of each such record are those of
\* an edge between the pair.
C11_Original ==
    (call.made /\ result.status = "returned") =>
        \A j \in KeptEdges :
            /\ number_of_edges(result.g, SourceOf(j), TargetOf(j))
                   = Cardinality(SamePair(j))
            /\ result.g.edge[PairOf(j)] = EdgeAttrsOf(j)

\* C11 as amended: when k >= 1 edge records have the same non-empty source
\* and the same target after normalization, the returned graph has exactly
\* one edge between that pair, and its label and relationship are those of
\* the last such record, none being kept from an earlier record.
C11_OneEdgePerPair ==
    (call.made /\ result.status = "returned") =>
        \A j \in KeptEdges :
            /\ number_of_edges(result.g, SourceOf(j), TargetOf(j)) = 1
            /\ LastWithPair(j) => result.g.edge[PairOf(j)] = EdgeAttrsOf(j)

C11_Witness ==
    /\ call.made /\ result.status = "returned"
    /\ Len(EdgesOf) >= 2
    /\ {1, 2} \subseteq KeptEdges
    /\ PairOf(1) = PairOf(2)
    /\ EdgeAttrsOf(1).label # EdgeAttrsOf(2).label
    /\ EdgeAttrsOf(1).relationship # EdgeAttrsOf(2).relationship
    /\ LastWithPair(2)
    /\ Cardinality(DOMAIN result.g.edge) = 1
    /\ result.g.edge[PairOf(2)] = EdgeAttrsOf(2)

\* ---------------------------------------------------------------- C12
\* C12: in every graph create_graph_from_yaml returns, under both validate
\* settings, every node's name is a non-empty string, the nodes that enter
\* the graph only as the source or target of an edge record included.
C12_NonEmptyNames ==
    (call.made /\ result.status = "returned") =>
        \A name \in DOMAIN result.g.node : IsStr(name) /\ name.s # <<>>

\* ---------------------------------------------------------------- C13
\* a document without records: each of its keys is missing or an empty list
Degenerate == NodesOf = <<>> /\ EdgesOf = <<>>

\* C13: a document whose `nodes` key or `edges` key is missing, or whose
\* lists are empty, is accepted without error by create_graph_from_yaml,
\* which returns a graph with 0 nodes and 0 edges.
C13_Degenerate ==
    (call.made /\ Degenerate) =>
        /\ result.status = "returned"
        /\ Cardinality(DOMAIN result.g.node) = 0
        /\ Cardinality(DOMAIN result.g.edge) = 0

\* ------------------------------------------------------------ the drawing
\* The figure is the sequence of the draw calls made on it, in order: a later
\* call paints over an earlier one.  Colours, line styles and float arguments
\* are the strings of the source ("g" is matplotlib's green, 5.0 is "5.0").
\* A call with an empty list draws nothing.
DrawCall(what, list, color, lwidth, ecolors, w, a, style) ==
    [what |-> what, list |-> list, color |-> color, linewidths |-> lwidth,
     edgecolors |-> ecolors, width |-> w, alpha |-> a, style |-> style]

\* [(u) for (u, d) in g.nodes(data=True) if d.get(key) == val]
NodesWith(g, key, val) ==
    { u \in DOMAIN g.node : PyEq(Get(g.node[u], key), val) }
n_all(g) == DOMAIN g.node
n_contractor(g) == NodesWith(g, "status", S_contractor)
n_starting(g) == NodesWith(g, "status", S_starting)
n_hiring(g) == NodesWith(g, "status", S_hiring)
n_leaving(g) == NodesWith(g, "status", S_leaving)
n_moving(g) == NodesWith(g, "status", S_moving)
n_new(g) == NodesWith(g, "status", S_new)
n_manager(g) == NodesWith(g, "manager", S_yes)

\* drawNetworkXNodes(nlist, color, lwidth=None, ecolors=None)
drawNetworkXNodes(nlist, color, lwidth, ecolors) ==
    DrawCall("nodes", nlist, color, lwidth, ecolors, 0, "", "")

\* mutant of NodeLayers: the nodes of every status are painted green last
NodeLayers_greenlast(g) ==
    << drawNetworkXNodes(n_hiring(g), "red", "None", "None"),
       drawNetworkXNodes(n_leaving(g), "orange", "None", "None"),
       drawNetworkXNodes(n_starting(g), "teal", "None", "None"),
       drawNetworkXNodes(n_new(g), "lightgreen", "None", "None"),
       drawNetworkXNodes(n_moving(g), "yellowgreen", "None", "None"),
       drawNetworkXNodes(n_contractor(g), "grey", "None", "None"),
       drawNetworkXNodes(n_all(g), "green", "None", "None"),
       drawNetworkXNodes(n_manager(g), "none", "5.0", "black") >>

\* the eight drawNetworkXNodes calls of draw_networkx_nodes, in order
NodeLayers(g) ==
    << drawNetworkXNodes(n_all(g), "green", "None", "None"),
       drawNetworkXNodes(n_hiring(g), "red", "None", "None"),
       drawNetworkXNodes(n_leaving(g), "orange", "None", "None"),
       drawNetworkXNodes(n_starting(g), "teal", "None", "None"),
       drawNetworkXNodes(n_new(g), "lightgreen", "None", "None"),
       drawNetworkXNodes(n_moving(g), "yellowgreen", "None", "None"),
       drawNetworkXNodes(n_contractor(g), "grey", "None", "None"),
       drawNetworkXNodes(n_manager(g), "none", "5.0", "black") >>

\* draw_networkx_nodes(g, ...): the node layers, then the name of every node
\* in white
draw_networkx_nodes(g, fig) ==
    fig \o NodeLayers(g)
        \o << DrawCall("labels", DOMAIN g.node, "w", "None", "None", 0, "", "") >>

\* [(u, v) for (u, v, d) in g.edges(data=True) if d.get("relationship") == r]
EdgesWith(g, r) ==
    { e \in DOMAIN g.edge : PyEq(Get(g.edge[e], "relationship"), PyInt(r)) }
e_direct(g) == EdgesWith(g, 1)
e_indirect(g) == EdgesWith(g, 2)
e_starting(g) == EdgesWith(g, 3)
e_leaving(g) == EdgesWith(g, 4)

\* drawNetworkXEdges(elist, w, a, color, style)
drawNetworkXEdges(elist, w, a, color, style) ==
    DrawCall("edges", elist, color, "None", "None", w, a, style)

\* mutant of draw_networkx_edges: the leaving edges are taken from the
\* starting ones
draw_networkx_edges_starting(g, fig) ==
    fig \o << drawNetworkXEdges(e_direct(g), 4, "0.8", "g", "solid"),
               drawNetworkXEdges(e_indirect(g), 4, "0.8", "g", "dotted"),
               drawNetworkXEdges(e_starting(g), 4, "0.8", "teal", "dotted"),
               drawNetworkXEdges(e_starting(g), 4, "0.8", "orange", "dotted") >>

\* draw_networkx_edges(g, pos, cstyle)
draw_networkx_edges(g, fig) ==
    fig \o << drawNetworkXEdges(e_direct(g), 4, "0.8", "g", "solid"),
               drawNetworkXEdges(e_indirect(g), 4, "0.8", "g", "dotted"),
               drawNetworkXEdges(e_starting(g), 4, "0.8", "teal", "dotted"),
               drawNetworkXEdges(e_leaving(g), 4, "0.8", "orange", "dotted") >>

\* draw_networkx_edge_labels(g, ..., using_edge_labels, ...): the label of
\* every edge, when edge labels are in use
draw_networkx_edge_labels(g, fig, using_edge_labels) ==
    IF using_edge_labels
    THEN fig \o << DrawCall("edge_labels",
                             { <<e, Get(g.edge[e], "label")>> : e \in DOMAIN g.edge },
                             "", "None", "None", 0, "", "") >>
    ELSE fig

\* [(u, d) for (u, d) in g.nodes(data=True) if d.get(key)]
NodesHaving(g, key) == { u \in DOMAIN g.node : Truthy(Get(g.node[u], key)) }

\* the text boxes of one loop of draw_networkx_text_labels
TextCall(what, texts) == DrawCall(what, texts, "none", "None", "none", 0, "0.5", "")

\* mutant of draw_networkx_text_labels: the split note is stored in the node
draw_networkx_text_labels_store(g, fig) ==
    LET n_note == NodesHaving(g, "note")
        n_team == NodesHaving(g, "team")
        n_jobtitle == NodesHaving(g, "jobtitle")
        teams == TextCall("team", { <<u, g.node[u]["team"]>> : u \in n_team })
        bad == \E u \in n_note : ~IsStr(g.node[u]["note"])
        notes == TextCall("note", { <<u, proc_field(g.node[u]["note"], TRUE, FALSE)>> :
                                        u \in n_note })
        jobs == TextCall("jobtitle", { <<u, g.node[u]["jobtitle"]>> : u \in n_jobtitle })
        g2 == [g EXCEPT !.node = [u \in DOMAIN g.node |->
                  IF u \in n_note
                  THEN ("note" :> proc_field(g.node[u]["note"], TRUE, FALSE)) @@ g.node[u]
                  ELSE g.node[u]]]
    IN  IF bad
        THEN [exc |-> "AttributeError", fig |-> fig \o <<teams>>, g |-> g]
        ELSE [exc |-> "", fig |-> fig \o <<teams, notes, jobs>>, g |-> g2]

\* draw_networkx_text_labels(g, pos, font_size, offset): the team above each
\* node that has one, the note (its first space a line break) inside, the
\* job title below; the graph is read only
draw_networkx_text_labels(g, fig) ==
    LET n_note == NodesHaving(g, "note")
        n_team == NodesHaving(g, "team")
        n_jobtitle == NodesHaving(g, "jobtitle")
        teams == TextCall("team", { <<u, g.node[u]["team"]>> : u \in n_team })
        bad == \E u \in n_note : ~IsStr(g.node[u]["note"])
        notes == TextCall("note", { <<u, proc_field(g.node[u]["note"], TRUE, FALSE)>> :
                                        u \in n_note })
        jobs == TextCall("jobtitle", { <<u, g.node[u]["jobtitle"]>> : u \in n_jobtitle })
    IN  IF bad
        THEN [exc |-> "AttributeError", fig |-> fig \o <<teams>>, g |-> g]
        ELSE [exc |-> "", fig |-> fig \o <<teams, notes, jobs>>, g |-> g]

\* create_graphviz_layout_from_graph(self, g, ..., image_file): the figure is
\* cleared, the four drawing steps run on g, the figure is saved and g is
\* returned; `g` is the graph object after the call
create_graphviz_layout_from_graph(g, image_file) ==
    LET fig0 == <<>>
        fig1 == draw_networkx_nodes(g, fig0)
        fig2 == draw_networkx_edges(g, fig1)
        fig3 == draw_networkx_edge_labels(g, fig2, FALSE)
        r == draw_networkx_text_labels(g, fig3)
    IN  IF r.exc # ""
        THEN [exc |-> r.exc, fig |-> r.fig, g |-> r.g, saved |-> EmptyDict,
              ret |-> None]
        ELSE [exc |-> "", fig |-> r.fig, g |-> r.g,
              saved |-> (image_file :> [kind |-> "png", body |-> r.fig]),
              ret |-> r.g]

\* create_dotfile_from_graph(self, g, dot_file): write_dot reads the graph
create_dotfile_from_graph(g, dot_file) ==
    [g |-> g, saved |-> (dot_file :> [kind |-> "dot", body |-> g]), ret |-> dot_file]

P_out_png == <<"o", ".", "p", "n", "g">>
P_out_dot == <<"o", ".", "d", "o", "t">>

\* a caller that holds a built graph renders it
CreateLayout(image_file) ==
    /\ pc = "idle"
    /\ result.status = "returned"
    /\ LET r == create_graphviz_layout_from_graph(result.g, image_file)
       IN  /\ canvas' = r.fig
           /\ result' = [result EXCEPT !.g = r.g]
           /\ layout' = [made |-> r.exc = "", g |-> r.ret, exc |-> r.exc]
           /\ disk' = r.saved @@ disk
    /\ UNCHANGED <<validTeams, validStatus, validRelations, yaml_data, call,
                   setlog, fresh>>
    /\ UNCHANGED <<fieldVars, mainVars>>

\* a caller that holds a built graph exports it
CreateDotfile(dot_file) ==
    /\ pc = "idle"
    /\ result.status = "returned"
    /\ LET r == create_dotfile_from_graph(result.g, dot_file)
       IN  /\ result' = [result EXCEPT !.g = r.g]
           /\ disk' = r.saved @@ disk
    /\ UNCHANGED <<validTeams, validStatus, validRelations, yaml_data, call,
                   setlog, fresh, canvas, layout>>
    /\ UNCHANGED <<fieldVars, mainVars>>

\* ------------------------------------------- the documents that are drawn
S_A == PyStr(<<"A">>)
S_B == PyStr(<<"B">>)
S_no == PyStr(<<"n", "o">>)
S_other == PyStr(<<"t", "e", "m", "p">>)

\* node A in every status the drawing knows, one it does not know and none,
\* as a manager and not
RenderNodeA ==
    { [id |-> S_A, label |-> PyStr(<<"C", "E", "O">>), team |-> S_A,
       note |-> PyStr(<<"n", " ", "o">>), status |-> st, manager |-> mg] :
          st \in { S_perm, S_contractor, S_starting, S_leaving, S_moving, S_new,
                   S_hiring, S_other },
          mg \in { S_yes, S_no } }
    \cup { [id |-> S_A, label |-> PyStr(<<"C", "E", "O">>), manager |-> mg] :
               mg \in { S_yes, S_no } }
\* node B of the tests' document, and a node B whose manager is the boolean
\* a YAML `yes` loads as
RenderNodeB ==
    { [id |-> S_B, label |-> PyStr(<<"C", "T", "O">>), status |-> S_perm,
       manager |-> S_no, team |-> S_B],
      [id |-> S_B, status |-> S_hiring, manager |-> PyBool(TRUE)] }

RenderEdge(u, v, r) == [source |-> u, target |-> v, relationship |-> r]
RenderRelations ==
    { PyInt(1), PyInt(2), PyInt(3), PyInt(4), PyInt(5), PyBool(TRUE),
      PyStr(<<"1">>) }
RenderEdgeLists ==
    { <<>>, << [source |-> S_A, target |-> S_B] >>,
      << RenderEdge(S_A, S_B, PyInt(1)), RenderEdge(S_B, S_A, PyInt(4)) >>,
      << RenderEdge(S_A, S_B, PyInt(3)), RenderEdge(S_A, S_B, PyInt(2)) >> }
    \cup { << RenderEdge(S_A, S_B, r) >> : r \in RenderRelations }

RenderDocs ==
    { [nodes |-> ns, edges |-> es] :
        ns \in { <<a>> : a \in RenderNodeA }
                  \cup { <<a, b>> : a \in RenderNodeA, b \in RenderNodeB },
        es \in RenderEdgeLists }

InitRenderDocs ==
    /\ InitBuilder
    /\ yaml_data \in RenderDocs
    /\ InitField
    /\ InitRender
    /\ InitNoMain

NextRender ==
    \/ set_valid_status(StatusCustom)
    \/ \E newline \in BOOLEAN, validate \in BOOLEAN : CreateGraph(newline, validate)
    \/ CreateLayout(P_out_png)
    \/ CreateDotfile(P_out_dot)

SpecRender == InitRenderDocs /\ [][NextRender]_vars

\* ----------------------------------------------------------- C16 .. C18
\* the draw calls that paint node u with a fill, and the colour on top
FillCalls(u) ==
    { i \in 1..Len(canvas) :
          canvas[i].what = "nodes" /\ u \in canvas[i].list /\ canvas[i].color # "none" }
Greatest(S) == CHOOSE x \in S : \A y \in S : y <= x
TopFill(u) == canvas[Greatest(FillCalls(u))].color
Overlaid(u) ==
    \E i \in 1..Len(canvas) :
        /\ canvas[i].what = "nodes" /\ u \in canvas[i].list
        /\ canvas[i].color = "none"
        /\ canvas[i].linewidths = "5.0" /\ canvas[i].edgecolors = "black"
        /\ \A k \in FillCalls(u) : k < i

StatusColour(status) ==
    CASE status = S_contractor -> "grey"
      [] status = S_starting -> "teal"
      [] status = S_leaving -> "orange"
      [] status = S_new -> "lightgreen"
      [] status = S_moving -> "yellowgreen"
      [] status = S_hiring -> "red"
      [] OTHER -> "green"

\* C16: after the node drawing sequence the top-most fill colour of every
\* node is given by its status alone (contractor grey, starting teal, leaving
\* orange, new lightgreen, moving yellowgreen, hiring red, perm and any other
\* or missing status green), and a node has the unfilled overlay with the
\* thick black border, above its fill, exactly when its manager attribute
\* equals "yes".
C16_NodeColours ==
    layout.made =>
        \A u \in DOMAIN layout.g.node :
            /\ FillCalls(u) # {}
            /\ TopFill(u) = StatusColour(Get(layout.g.node[u], "status"))
            /\ Overlaid(u) <=> Get(layout.g.node[u], "manager") = S_yes

C16_Witness ==
    /\ layout.made
    /\ {S_A, S_B} \subseteq DOMAIN layout.g.node
    /\ Get(layout.g.node[S_A], "status") = S_contractor
    /\ Get(layout.g.node[S_A], "manager") = S_yes
    /\ TopFill(S_A) = "grey" /\ Overlaid(S_A)
    /\ Get(layout.g.node[S_B], "status") = S_hiring
    /\ TopFill(S_B) = "red" /\ ~Overlaid(S_B)

\* the draw calls that draw edge e
EdgeCalls(e) ==
    { i \in 1..Len(canvas) : canvas[i].what = "edges" /\ e \in canvas[i].list }
RelationStyle(r) ==
    CASE r = 1 -> [color |-> "g", style |-> "solid"]
      [] r = 2 -> [color |-> "g", style |-> "dotted"]
      [] r = 3 -> [color |-> "teal", style |-> "dotted"]
      [] r = 4 -> [color |-> "orange", style |-> "dotted"]
RelationOf(e) == Get(layout.g.edge[e], "relationship")

\* C17: an edge whose relationship equals 1, 2, 3 or 4 is drawn by exactly
\* one call, solid green for 1, dotted green for 2, dotted teal for 3 and
\* dotted orange for 4, each with width 4 and alpha 0.8; an edge whose
\* relationship is absent or equals none of 1-4 is drawn by no call.
C17_EdgeStyles ==
    layout.made =>
        \A e \in DOMAIN layout.g.edge :
            IF \E r \in 1..4 : PyEq(RelationOf(e), PyInt(r))
            THEN LET r == CHOOSE x \in 1..4 : PyEq(RelationOf(e), PyInt(x))
                 IN  /\ Cardinality(EdgeCalls(e)) = 1
                     /\ \A i \in EdgeCalls(e) :
                            /\ canvas[i].color = RelationStyle(r).color
                            /\ canvas[i].style = RelationStyle(r).style
                            /\ canvas[i].width = 4
                            /\ canvas[i].alpha = "0.8"
            ELSE EdgeCalls(e) = {}

C17_Witness ==
    /\ layout.made
    /\ DOMAIN layout.g.edge = { <<S_A, S_B>>, <<S_B, S_A>> }
    /\ RelationOf(<<S_A, S_B>>) = PyInt(1)
    /\ RelationOf(<<S_B, S_A>>) = PyInt(4)
    /\ \E i \in EdgeCalls(<<S_A, S_B>>) :
           canvas[i].color = "g" /\ canvas[i].style = "solid"
    /\ \E i \in EdgeCalls(<<S_B, S_A>>) :
           canvas[i].color = "orange" /\ canvas[i].style = "dotted"

\* a step of create_graphviz_layout_from_graph or create_dotfile_from_graph
LayoutStep == canvas' # canvas \/ layout' # layout
RenderStep == LayoutStep \/ disk' # disk

\* C18: create_graphviz_layout_from_graph, with its drawing steps, and
\* create_dotfile_from_graph leave the graph as it was (node set, edge set,
\* every node and edge attribute) and leave the three valid-value lists as
\* they were, and the graph the layout step returns is the graph it was given.
C18_GraphUnwritten ==
    /\ [][RenderStep => /\ result' = result
                         /\ validTeams' = validTeams
                         /\ validStatus' = validStatus
                         /\ validRelations' = validRelations]_vars
    /\ [][(LayoutStep /\ layout'.made) => layout'.g = result.g]_vars

C18_Witness ==
    /\ layout.made /\ layout.g = result.g
    /\ DOMAIN disk = { P_out_png, P_out_dot }
    /\ disk[P_out_dot].body = result.g
    /\ Cardinality(DOMAIN result.g.node) = 2
    /\ Cardinality(DOMAIN result.g.edge) = 1
    /\ Get(result.g.node[S_A], "note") = PyStr(<<"n", " ", "o">>)
    /\ validStatus = StatusCustom

\* ------------------------------------------------------------------ main
P_source == <<"t", ".", "y", "a", "m", "l">>
\* source[:-5] + ext
Retarget(source, ext) == SubSeq(source, 1, Len(source) - 5) \o ext
Ext_dot == <<".", "d", "o", "t">>
Ext_png == <<".", "p", "n", "g">>

\* print(...)
Printed(text, file) == [text |-> text, file |-> file]

\* the exit status of a process that ends with sys.exit(code): 0 for
\* sys.exit() and sys.exit(None), the integer for an integer, 1 otherwise
ExitStatus(code) ==
    CASE code = None -> PyInt(0)
      [] code.t \in {"int", "bool"} -> PyInt(code.n)
      [] OTHER -> PyInt(1)
\* the exit status of a process that ends with an uncaught exception
Uncaught == PyInt(1)
\* the exit status of a process whose script runs to its end
Finished == PyInt(0)

\* no document is loaded yet
NotLoaded == None

\* the files a run starts with: none, or the source with a document in it
MainDocs == ConfigDocs \cup { EmptyDict, DocNone }
StartDisks ==
    { EmptyDict } \cup { (P_source :> [kind |-> "yaml", body |-> d]) : d \in MainDocs }

InitMain ==
    /\ InitBuilder
    /\ yaml_data = NotLoaded
    /\ InitField
    /\ canvas = <<>>
    /\ layout = NoLayout
    /\ disk \in StartDisks
    /\ arguments \in [source : { <<>>, <<P_source>> }, version : BOOLEAN,
                       help : BOOLEAN]
    /\ pc = "start"
    /\ exitStatus = None
    /\ stdout = <<>>

\* main, `if arguments.get("--source")`: the source must exist, or the error
\* is printed and sys.exit() is called
MainSource ==
    /\ pc = "start"
    /\ IF arguments.source # <<>> /\ arguments.source[1] \notin DOMAIN disk
       THEN /\ stdout' = Append(stdout, Printed("ERROR: Could not find",
                                                 arguments.source[1]))
            /\ pc' = "exit"
            /\ exitStatus' = ExitStatus(None)
       ELSE /\ pc' = "checked"
            /\ UNCHANGED <<stdout, exitStatus>>
    /\ UNCHANGED <<builderVars, fieldVars, renderVars, arguments>>

\* main, --version and --help, or the builder is made and the document loaded
MainLoad ==
    /\ pc = "checked"
    /\ IF arguments.version
       THEN /\ stdout' = Append(stdout, Printed("version", <<>>))
            /\ pc' = "exit" /\ exitStatus' = Finished
            /\ UNCHANGED yaml_data
       ELSE IF arguments.help
       THEN /\ stdout' = Append(stdout, Printed("usage", <<>>))
            /\ pc' = "exit" /\ exitStatus' = Finished
            /\ UNCHANGED yaml_data
       ELSE IF arguments.source = <<>>
       THEN \* `source` was never assigned
            /\ pc' = "exit" /\ exitStatus' = Uncaught
            /\ UNCHANGED <<stdout, yaml_data>>
       ELSE /\ yaml_data' = disk[arguments.source[1]].body
            /\ pc' = "loaded"
            /\ UNCHANGED <<stdout, exitStatus>>
    /\ UNCHANGED <<validTeams, validStatus, validRelations, call, result,
                   setlog, fresh>>
    /\ UNCHANGED <<fieldVars, renderVars, arguments>>

\* main, `graph = org.create_graph_from_yaml(data)`
MainBuild ==
    /\ pc = "loaded"
    /\ call' = [made |-> TRUE, newline |-> TRUE, validate |-> FALSE]
    /\ result' = create_graph_from_yaml(Self, yaml_data, TRUE, FALSE)
    /\ fresh' = TRUE
    /\ IF result'.status = "returned"
       THEN pc' = "built" /\ UNCHANGED exitStatus
       ELSE pc' = "exit" /\ exitStatus' = Uncaught
    /\ UNCHANGED <<validTeams, validStatus, validRelations, yaml_data, setlog>>
    /\ UNCHANGED <<fieldVars, renderVars, arguments, stdout>>

\* main, the dot file is written and reported
MainDotfile ==
    /\ pc = "built"
    /\ LET target == Retarget(arguments.source[1], Ext_dot)
           r == create_dotfile_from_graph(result.g, target)
       IN  /\ result' = [result EXCEPT !.g = r.g]
           /\ disk' = r.saved @@ disk
           /\ stdout' = Append(stdout, Printed("Successfully created dot file", r.ret))
    /\ pc' = "dotted"
    /\ UNCHANGED <<validTeams, validStatus, validRelations, yaml_data, call,
                   setlog, fresh, canvas, layout>>
    /\ UNCHANGED <<fieldVars, arguments, exitStatus>>

\* main, the image is drawn, saved and reported, and main returns
MainLayout ==
    /\ pc = "dotted"
    /\ LET image == Retarget(arguments.source[1], Ext_png)
           r == create_graphviz_layout_from_graph(result.g, image)
       IN  /\ canvas' = r.fig
           /\ result' = [result EXCEPT !.g = r.g]
           /\ layout' = [made |-> r.exc = "", g |-> r.ret, exc |-> r.exc]
           /\ disk' = r.saved @@ disk
           /\ IF r.exc = ""
              THEN /\ stdout' = stdout \o
                         << Printed("Successfully generated organogram into file", image),
                            Printed("successfully processed", arguments.source[1]) >>
                   /\ exitStatus' = Finished
              ELSE /\ exitStatus' = Uncaught
                   /\ UNCHANGED stdout
    /\ pc' = "exit"
    /\ UNCHANGED <<validTeams, validStatus, validRelations, yaml_data, call,
                   setlog, fresh>>
    /\ UNCHANGED <<fieldVars, arguments>>

NextMain ==
    \/ MainSource
    \/ MainLoad
    \/ MainBuild
    \/ MainDotfile
    \/ MainLayout

SpecMain == InitMain /\ [][NextMain]_vars

\* ---------------------------------------------------------------- C14
SourceMissing == arguments.source # <<>> /\ arguments.source[1] \notin DOMAIN disk

\* C14: when the command line names a source file that does not exist, main
\* prints an error and the process ends with a non-zero exit status, and
\* nothing else is done: no document is loaded, no graph is built, and
\* neither the dot file nor the image file is written.
C14_MissingSource ==
    (SourceMissing /\ pc # "start") =>
        /\ pc = "exit"
        /\ stdout = << Printed("ERROR: Could not find", arguments.source[1]) >>
        /\ exitStatus # PyInt(0)
        /\ yaml_data = NotLoaded
        /\ result = NoResult
        /\ Retarget(arguments.source[1], Ext_dot) \notin DOMAIN disk
        /\ Retarget(arguments.source[1], Ext_png) \notin DOMAIN disk

\* ---------------------------------------------------------------- C15
\* C15: the rank, manager and status a node record gives are stored in the
\* graph as they are: for every one of these keys present in the record (a
\* rank of 0 and a boolean manager included) the attribute of the node the
\* record writes equals the record's value.
C15_PassThrough ==
    (call.made /\ result.status = "returned") =>
        \A i \in KeptNodes :
            LastWithName(i) =>
                \A k \in {"rank", "manager", "status"} \cap DOMAIN NodesOf[i] :
                    Get(result.g.node[NameOf(i)], k) = NodesOf[i][k]

\* ---------------------------------------------------------------- C19
\* the records that never reach the graph
SkippedNodes == NodeIx \ KeptNodes
SkippedEdges == EdgeIx \ KeptEdges
\* the document without them
KeptDoc ==
    [nodes |-> SelectSeq(NodesOf, LAMBDA n : Truthy(Get(n, "id"))),
     edges |-> SelectSeq(EdgesOf, LAMBDA e : Truthy(Get(e, "source")))]

\* C19: with validate=True a node record without an id still aborts the
\* build when its team or status is invalid, and (the node records passing)
\* an edge record without a source still aborts it when its relationship is
\* invalid; with validate=False the same records are dropped: the call
\* returns the graph of the document without them.
C19_ValidateBeforeSkip ==
    (call.made /\ fresh) =>
        /\ ( /\ call.validate /\ HasNodes
             /\ \E i \in SkippedNodes : BadTeam(i) \/ BadStatus(i) )
              => Aborted /\ result.at[1] = "nodes"
        /\ ( /\ call.validate /\ HasKeys /\ NodesPass
             /\ \E j \in SkippedEdges : BadRelation(j) )
              => Aborted /\ result.at[1] = "edges"
        /\ (~call.validate /\ HasKeys) =>
               /\ result.status = "returned"
               /\ result.g = create_graph_from_yaml(Self, KeptDoc, call.newline, FALSE).g

C19_Witness ==
    /\ call.made /\ fresh /\ call.validate
    /\ validTeams = VALID_TEAM /\ validStatus = VALID_STATUS
    /\ Len(NodesOf) >= 2
    /\ 1 \in KeptNodes /\ ~BadTeam(1) /\ ~BadStatus(1)
    /\ 2 \in SkippedNodes /\ BadTeam(2) /\ BadStatus(2)
    /\ Aborted /\ result.at = <<"nodes", 2>>

====
